---- MODULE Spec2Model ----
(***************************************************************************)
(* State-machine model of the TM1628 LED controller driver                 *)
(* (drivers/auxdisplay/tm1628.c).                                          *)
(*                                                                         *)
(* Threads: "main" is the driver core (probe, then remove or shutdown);    *)
(* "u1" and "u2" are user threads that write the display_text attribute    *)
(* and set and read LED brightness.  Every access to shared memory and     *)
(* every SPI transfer is a step of its own, so that the interleavings the  *)
(* mutex allows (and the ones it forbids) are all explored.                *)
(*                                                                         *)
(* C arrays are functions over 0..N-1 and keep the source's indexing;      *)
(* firmware properties and input buffers are sequences (1-based).          *)
(***************************************************************************)
EXTENDS Integers, Sequences, FiniteSets, TLC

\* Physical limits (tm1628.c:34-35)
MAX_GRID_SIZE == 7
MAX_SEGMENT_NUM == 16

\* A text write carries at most grid_size + MaxExtra bytes.
MaxExtra == 2

\* At most MaxFailures transfers fail on the bus in one run.
MaxFailures == 1

Clients == {"u1", "u2"}
Threads == {"main"} \cup Clients

\* "nobody": the mutex is free / no thread has used the bus yet.
NoThread == "none"

(***************************************************************************)
(* Integer helpers: unsigned int arithmetic and single-bit operations on   *)
(* 16-bit display words.  An unsigned int is kept as its two 16-bit halves *)
(* <<high, low>>, so that sums wrap at 2^32 as they do in C.               *)
(***************************************************************************)
ToU32(n) == <<n \div (2 ^ 16), n % (2 ^ 16)>>

U32Add(a, b) ==
    LET low == a[2] + b[2]
    IN  <<(a[1] + b[1] + low \div (2 ^ 16)) % (2 ^ 16), low % (2 ^ 16)>>

\* a > n, for an unsigned int a and a small constant n
U32Gt(a, n) == a[1] > 0 \/ a[2] > n

BIT(n) == 2 ^ n

TestBit(x, n) == (x \div (2 ^ n)) % 2 = 1

\* x | BIT(n)
OrBit(x, n) == IF TestBit(x, n) THEN x ELSE x + 2 ^ n

\* x & ~BIT(n)
AndNotBit(x, n) == IF TestBit(x, n) THEN x - 2 ^ n ELSE x

(***************************************************************************)
(* Library code the driver calls.  Neither lib/ctype.c nor                 *)
(* include/uapi/linux/map_to_7segment.h is among the sources at hand; both *)
(* are modelled from what the specification says of them (printable        *)
(* characters; a fixed alphanumeric 7-segment font, bit j = segment j).    *)
(***************************************************************************)
\* isprint() of the kernel's ctype table: 0x20..0x7e and 0xa0..0xff.
isprint(c) == (c >= 32 /\ c <= 126) \/ (c >= 160 /\ c <= 255)

\* map_to_seg7(&map_seg7, c), reduced to the seven bits the render loop
\* looks at.  '1' = segments b,c; '8' = all seven; 'A' = a,b,c,e,f,g;
\* '-' = g; blank, NUL and control characters = none.  A byte outside the
\* 128-entry table yields -EINVAL, whose low seven bits are 0x6a.
map_to_seg7(c) ==
    CASE c = 49 -> 6
      [] c = 56 -> 127
      [] c = 65 -> 119
      [] c = 45 -> 64
      [] c >= 128 -> 106
      [] OTHER -> 0

(***************************************************************************)
(* Scenarios.  A scenario is a firmware description of the device (the     *)
(* "grid" and "segment-mapping" properties and the child nodes with their  *)
(* "reg" property) together with the client threads that use the device    *)
(* and the byte strings they write.                                        *)
(***************************************************************************)
Identity7 == <<1, 2, 3, 4, 5, 6, 7>>

\* The permutation g, g-1, ..., 1.
Reversed(g) == [k \in 1..g |-> g + 1 - k]

\* n printable characters, alternating between c1 and c2.
Run(n, c1, c2) == [k \in 1..n |-> IF k % 2 = 1 THEN c1 ELSE c2]

\* Byte strings for a display of g digits: the empty string, g printable
\* characters and a newline, g + 1 printable characters, a string that is too
\* long, and one with a newline in the middle.
InputsFor(g) ==
    {<<>>, Run(g, 65, 56) \o <<10>>, Run(g + 1, 49, 65), Run(g + MaxExtra, 49, 65),
     <<49, 10, 65>>}

\* regfail: the child nodes (by position) whose LED registration may fail.
\* clients: what each user thread does ("text": writes display_text, "led":
\* sets and reads LEDs).  unbind: the device is removed or the system shut
\* down while in use.  flaky: transfers on the bus may fail.
Scenario(gr, sm, ch, rf, cl, inp, ub, fl) ==
    [grid |-> gr, segmap |-> sm, children |-> ch, regfail |-> rf, clients |-> cl,
     inputs |-> inp, unbind |-> ub, flaky |-> fl]

Nobody == [t \in Clients |-> {}]
OneUser == [t \in Clients |-> IF t = "u1" THEN {"text", "led"} ELSE {}]
OneLedUser == [t \in Clients |-> IF t = "u1" THEN {"led"} ELSE {}]
TwoWriters == [t \in Clients |-> {"text"}]
WriterAndLed == [t \in Clients |-> IF t = "u1" THEN {"text"} ELSE {"led"}]

\* One user of a display of g digits wired in reverse order, with an LED on
\* the first word (a digit word) and one on the last (a digit word only when
\* g = 7).
SeqScenarios ==
    {Scenario(Reversed(g), <<8, 7, 6, 5, 4, 3, 2>>,
              <<<<1, 1>>, <<MAX_GRID_SIZE, MAX_SEGMENT_NUM>>>>, {},
              OneUser, InputsFor(g), FALSE, FALSE) : g \in 1..MAX_GRID_SIZE}

\* Two writers racing on a display of two digits.
RaceScenarios ==
    {Scenario(<<2, 1>>, Identity7, <<>>, {}, TwoWriters,
              {<<>>, <<49, 49>>, <<65, 10>>}, FALSE, FALSE)}

\* A writer and an LED user on one digit, with the device unbound under them.
UnbindScenarios ==
    {Scenario(<<1>>, Identity7, <<<<1, 8>>>>, {}, WriterAndLed,
              {<<65, 10>>, <<49, 49>>}, TRUE, FALSE)}

\* LEDs only: two on one word, one on another; a registration may fail.
LedScenarios ==
    {Scenario(<<1>>, Identity7, <<<<3, 1>>, <<3, 2>>, <<1, 8>>>>, {2},
              OneLedUser, {}, FALSE, FALSE)}

\* Tables that are in range but no permutations: two digits on one word, two
\* segments on one bit; a byte outside the font table.
AliasScenarios ==
    {Scenario(<<1, 1>>, <<1, 1, 2, 3, 4, 5, 16>>, <<<<2, 3>>>>, {},
              OneUser, InputsFor(2) \cup {<<233, 45>>}, FALSE, FALSE),
     Scenario(<<2, 2, 1>>, Identity7, <<<<3, 9>>>>, {}, OneUser, InputsFor(3),
              FALSE, FALSE)}

\* A bus whose transfers may fail: one user of two digits and two LEDs, one
\* of them on a digit word.
FlakyScenarios ==
    {Scenario(<<2, 1>>, Identity7, <<<<1, 8>>, <<3, 2>>>>, {}, OneUser,
              {<<>>, <<65, 10>>}, FALSE, TRUE)}

\* A writer and an LED user contending for one digit on such a bus.
ContendedScenarios ==
    {Scenario(<<1>>, Identity7, <<<<1, 8>>>>, {}, WriterAndLed, {<<65, 10>>},
              FALSE, TRUE)}

\* Firmware descriptions with missing or out-of-range values.
BadScenarios ==
    {Scenario(gr, Identity7, <<<<1, 9>>>>, {}, Nobody, {}, FALSE, TRUE)
        : gr \in {<<>>, <<1, 2, 3, 4, 5, 6, 7, 8>>, <<0, 1>>, <<1, 3>>}}
    \cup {Scenario(<<1, 2>>, sm, <<<<1, 9>>>>, {}, OneLedUser, {}, FALSE, FALSE)
        : sm \in {<<1, 2, 3>>, <<0, 2, 3, 4, 5, 6, 7>>, <<1, 2, 3, 4, 5, 6, 17>>}}
    \cup {Scenario(<<1>>, Identity7, <<reg, <<2, 9>>>>, {}, OneLedUser, {}, FALSE, FALSE)
        : reg \in {<<>>, <<0, 1>>, <<8, 1>>, <<1, 0>>, <<1, 17>>}}

Scenarios ==
    SeqScenarios \cup RaceScenarios \cup UnbindScenarios \cup LedScenarios
        \cup AliasScenarios \cup FlakyScenarios \cup ContendedScenarios
        \cup BadScenarios

(***************************************************************************)
(* State.                                                                  *)
(***************************************************************************)
VARIABLES
    cfg,              \* the scenario: firmware description, clients, inputs
    pc,               \* each thread's position
    loc,              \* each thread's local variables
    data,             \* s->data: the display buffer, one word per grid
    text,             \* s->text: char[MAX_GRID_SIZE + 1]
    segment_mapping,  \* s->segment_mapping: u8[7]
    grid,             \* s->grid: u8[MAX_GRID_SIZE]
    grid_size,        \* s->grid_size
    leds,             \* s->leds[]: the (grid, seg) written into each slot
    num_leds,         \* probe's count of registered LEDs
    led_live,         \* slots whose LED class device is registered
    file,             \* the display_text attribute exists
    disp_lock,        \* s->disp_lock: the owner, or NoThread
    bus,              \* the last transfer on the SPI bus: its kind and issuer
    dev,              \* the controller's display memory, one word per grid
    dev_addr,         \* the controller's address register, in words
    failures,         \* the number of transfers that have failed
    all_ok,           \* no operation of a client has returned an error so far
    registered        \* the child nodes whose LED got registered, in order

vars == <<cfg, pc, loc, data, text, segment_mapping, grid, grid_size, leds,
          num_leds, led_live, file, disp_lock, bus, dev, dev_addr, failures,
          all_ok, registered>>

\* struct tm1628 without its locks and locals
mem == <<data, text, segment_mapping, grid, grid_size>>

NoXfer == [kind |-> "none", by |-> NoThread]

\* A thread's locals: the operation it runs (op), the bytes written to the
\* attribute (buf, count = Len(buf)), loop index i, msg_len, the characters
\* the render loop has read (rd), the LED slot and requested state (led, on),
\* write_data's arguments (offset, len), the value returned (ret) and the
\* transfers the operation has issued so far (xf).
NoLoc ==
    [op |-> "none", buf |-> <<>>, i |-> 0, msg_len |-> 0, rd |-> <<>>,
     led |-> 0, on |-> FALSE, offset |-> ToU32(0), len |-> ToU32(0), ret |-> "none",
     xf |-> <<>>]

NumChildren == Len(cfg.children)

\* What the controller's memory may hold at power-on.
PowerOnMemory ==
    {[k \in 0..(MAX_GRID_SIZE - 1) |-> v] : v \in {0, 2 ^ 16 - 1}}

\* devm_kzalloc: everything zero.
Init ==
    /\ cfg \in Scenarios
    /\ pc = [t \in Threads |-> IF t = "main" THEN "probe" ELSE "idle"]
    /\ loc = [t \in Threads |-> NoLoc]
    /\ data = [k \in 0..(MAX_GRID_SIZE - 1) |-> 0]
    /\ text = [k \in 0..MAX_GRID_SIZE |-> 0]
    /\ segment_mapping = [k \in 0..6 |-> 0]
    /\ grid = [k \in 0..(MAX_GRID_SIZE - 1) |-> 0]
    /\ grid_size = 0
    /\ leds = [k \in 0..(Len(cfg.children) - 1) |-> [grid |-> 0, seg |-> 0]]
    /\ num_leds = 0
    /\ led_live = {}
    /\ file = FALSE
    /\ disp_lock = NoThread
    /\ bus = NoXfer
    /\ dev \in PowerOnMemory
    /\ dev_addr = 0
    /\ failures = 0
    /\ all_ok = TRUE
    /\ registered = <<>>

(***************************************************************************)
(* The SPI bus and the controller behind it.  spi_write and               *)
(* spi_sync_transfer either succeed or fail; the outcome is the            *)
(* environment's choice, on a flaky bus and up to MaxFailures failures.    *)
(***************************************************************************)
\* What a transfer reads beyond the end of s->data.
Junk == {0, 2 ^ 16 - 1}

\* The word address the address command sets: the command byte carries
\* (u8)offset * sizeof(__le16) in its low four bits.  Address 7 (bytes 14 and
\* 15) is no display memory: data sent there is dropped.
AddrOf(offset) == offset[2] % 8

\* len modulo MAX_GRID_SIZE, for an unsigned int len (2^16 = 2 modulo 7).
LenMod(len) == (2 * len[1] + len[2]) % MAX_GRID_SIZE

\* The controller's address register after a transfer.  A transfer that
\* fails does not reach the controller.  The address increments with every
\* word written and wraps at the end of the display memory.
AddrAfter(kind, offset, len, ok) ==
    IF ~ok THEN dev_addr
    ELSE IF kind = "addr" THEN AddrOf(offset)
    ELSE IF kind = "data" /\ dev_addr < MAX_GRID_SIZE
         THEN (dev_addr + LenMod(len)) % MAX_GRID_SIZE
    ELSE dev_addr

\* The j-th word a data transfer sends: s->data[offset + j], or whatever lies
\* beyond the array.
Sent(offset, j, junk) ==
    IF offset[1] = 0 /\ offset[2] + j < MAX_GRID_SIZE
    THEN data[offset[2] + j]
    ELSE junk

\* The controller's memory after a transfer: the words of a data transfer
\* go to consecutive addresses from the address register on.
MemoryAfter(kind, offset, len, ok, junk) ==
    IF ~(ok /\ kind = "data" /\ dev_addr < MAX_GRID_SIZE) THEN dev
    ELSE [k \in 0..(MAX_GRID_SIZE - 1) |->
            LET r == (k - dev_addr) % MAX_GRID_SIZE
            IN  IF len[1] > 0 THEN junk
                ELSE IF r >= len[2] THEN dev[k]
                ELSE Sent(offset,
                          r + MAX_GRID_SIZE * ((len[2] - 1 - r) \div MAX_GRID_SIZE),
                          junk)]

\* Thread p issues one transfer: it goes on the wire and into p's own record.
Issue(p, kind, offset, len, ok, newpc, newret) ==
    LET x == [kind |-> kind, offset |-> offset, len |-> len, ok |-> ok]
    IN  /\ bus' = [kind |-> kind, by |-> p]
        /\ loc' = [loc EXCEPT ![p].xf = Append(@, x), ![p].ret = newret]
        /\ pc' = [pc EXCEPT ![p] = newpc]
        /\ ok \/ (cfg.flaky /\ failures < MaxFailures)
        /\ failures' = IF ok THEN failures ELSE failures + 1
        /\ dev_addr' = AddrAfter(kind, offset, len, ok)
        /\ \E junk \in Junk : dev' = MemoryAfter(kind, offset, len, ok, junk)

(***************************************************************************)
(* tm1628_write_data (tm1628.c:72-97), three steps: the bounds check, the  *)
(* address command, the data transfer.                                     *)
(***************************************************************************)
\* offset + len > MAX_GRID_SIZE, in unsigned int arithmetic
OutOfRange(offset, len) == U32Gt(U32Add(offset, len), MAX_GRID_SIZE)

WriteDataCheck(p) ==
    /\ pc[p] = "wd_check"
    /\ IF OutOfRange(loc[p].offset, loc[p].len)
       THEN /\ loc' = [loc EXCEPT ![p].ret = "-EINVAL"]
            /\ pc' = [pc EXCEPT ![p] = "wd_ret"]
       ELSE /\ pc' = [pc EXCEPT ![p] = "wd_addr"]
            /\ UNCHANGED loc
    /\ UNCHANGED <<cfg, all_ok, registered, mem, leds, num_leds, led_live,
                   file, disp_lock, bus, dev, dev_addr, failures>>

\* tm1628_set_address(spi, offset); its result is dropped.
WriteDataAddr(p) ==
    /\ pc[p] = "wd_addr"
    /\ \E ok \in BOOLEAN :
         Issue(p, "addr", loc[p].offset, ToU32(0), ok, "wd_xfer", loc[p].ret)
    /\ UNCHANGED <<cfg, all_ok, registered, mem, leds, num_leds, led_live,
                   file, disp_lock>>

\* Mutant of XferResult: the result of the data transfer is dropped.
XferResultDropped(ok) == "0"

\* return spi_sync_transfer(spi, xfers, 2);
XferResult(ok) == IF ok THEN "0" ELSE "-EIO"

WriteDataXfer(p) ==
    /\ pc[p] = "wd_xfer"
    /\ \E ok \in BOOLEAN :
         Issue(p, "data", loc[p].offset, loc[p].len, ok, "wd_ret", XferResult(ok))
    /\ UNCHANGED <<cfg, all_ok, registered, mem, leds, num_leds, led_live,
                   file, disp_lock>>

(***************************************************************************)
(* tm1628_spi_probe (tm1628.c:234-336).                                    *)
(***************************************************************************)
\* Allocation, mutex_init, msleep(200), then write_data(spi, 0, MAX_GRID_SIZE).
ProbeStart ==
    /\ pc["main"] = "probe"
    /\ \E ok \in BOOLEAN :
         IF ok
         THEN /\ loc' = [loc EXCEPT !["main"] =
                            [NoLoc EXCEPT !.op = "probe", !.offset = ToU32(0),
                                          !.len = ToU32(MAX_GRID_SIZE)]]
              /\ pc' = [pc EXCEPT !["main"] = "wd_check"]
         ELSE /\ loc' = [loc EXCEPT !["main"] =
                            [NoLoc EXCEPT !.op = "probe", !.ret = "-ENOMEM"]]
              /\ pc' = [pc EXCEPT !["main"] = "failed"]
    /\ UNCHANGED <<cfg, all_ok, registered, mem, leds, num_leds, led_live,
                   file, disp_lock, bus, dev, dev_addr, failures>>

\* if (ret) return ret; tm1628_set_display_mode(spi, TM1628_DISPLAY_MODE_6_12);
ProbeMode ==
    /\ pc["main"] = "wd_ret"
    /\ loc["main"].op = "probe"
    /\ IF loc["main"].ret # "0"
       THEN /\ pc' = [pc EXCEPT !["main"] = "failed"]
            /\ UNCHANGED <<loc, bus, dev, dev_addr, failures>>
       ELSE \E ok \in BOOLEAN : Issue("main", "mode", ToU32(0), ToU32(0), ok, "p_ctrl", "0")
    /\ UNCHANGED <<cfg, all_ok, registered, mem, leds, num_leds, led_live,
                   file, disp_lock>>

\* tm1628_set_display_ctrl(spi, true); num_leds = 0;
ProbeCtrl ==
    /\ pc["main"] = "p_ctrl"
    /\ \E ok \in BOOLEAN : Issue("main", "ctrl", ToU32(0), ToU32(0), ok, "p_leds", "0")
    /\ UNCHANGED <<cfg, all_ok, registered, mem, leds, num_leds, led_live,
                   file, disp_lock>>

\* Mutant of ValidLedReg: only zero is refused.
ValidLedRegNoMax(reg) == Len(reg) >= 2 /\ reg[1] # 0 /\ reg[2] # 0

\* if (reg[0] == 0 || reg[0] > MAX_GRID_SIZE) ... if (reg[1] == 0 || ...)
ValidLedReg(reg) ==
    /\ Len(reg) >= 2
    /\ ~(reg[1] = 0 \/ reg[1] > MAX_GRID_SIZE)
    /\ ~(reg[2] = 0 \/ reg[2] > MAX_SEGMENT_NUM)

\* Mutant of RegisterLedSlot: the slot is the child's position, not num_leds.
RegisterLedAtChild(reg) ==
    [leds EXCEPT ![loc["main"].i] = [grid |-> reg[1], seg |-> reg[2]]]

\* tm1628_register_led fills slot s->leds + num_leds, then registers it.
RegisterLedSlot(reg) ==
    [leds EXCEPT ![num_leds] = [grid |-> reg[1], seg |-> reg[2]]]

\* One round of device_for_each_child_node; loc.i counts the children seen.
ProbeLed ==
    /\ pc["main"] = "p_leds"
    /\ LET k == loc["main"].i
       IN IF k >= NumChildren
          THEN /\ pc' = [pc EXCEPT !["main"] = "p_grid"]
               /\ UNCHANGED <<loc, leds, num_leds, led_live, registered>>
          ELSE /\ loc' = [loc EXCEPT !["main"].i = k + 1]
               /\ UNCHANGED pc
               /\ IF ~ValidLedReg(cfg.children[k + 1])
                  THEN UNCHANGED <<leds, num_leds, led_live, registered>>
                  ELSE /\ leds' = RegisterLedSlot(cfg.children[k + 1])
                       /\ \E ok \in {TRUE} \cup {FALSE : x \in {k + 1} \cap cfg.regfail} :
                            IF ok
                            THEN /\ led_live' = led_live \cup {num_leds}
                                 /\ num_leds' = num_leds + 1
                                 /\ registered' = Append(registered, k + 1)
                            ELSE UNCHANGED <<led_live, num_leds, registered>>
    /\ UNCHANGED <<cfg, all_ok, mem, file, disp_lock, bus, dev, dev_addr, failures>>

\* The array a property of the firmware description is read into.
ReadArray(prop, n, old) ==
    [k \in DOMAIN old |-> IF k < n /\ k < Len(prop) THEN prop[k + 1] ELSE old[k]]

\* for (i = 0; i < s->grid_size; i++) if (s->grid[i] < 1 || s->grid[i] > s->grid_size)
GridTableValid(g, n) == \A k \in 0..(n - 1) : ~(g[k] < 1 \/ g[k] > n)

\* for (i = 0; i < 7; i++) if (s->segment_mapping[i] < 1 || ... > MAX_SEGMENT_NUM)
SegmentTableValid(sm) == \A k \in 0..6 : ~(sm[k] < 1 \/ sm[k] > MAX_SEGMENT_NUM)

\* A failed probe leaves through devres, which unregisters the LEDs.
ProbeFail(err) ==
    /\ pc' = [pc EXCEPT !["main"] = "p_unwind"]
    /\ loc' = [loc EXCEPT !["main"].ret = err]

\* device_property_count_u8("grid"), the range check, the read, the validation.
ProbeGrid ==
    /\ pc["main"] = "p_grid"
    /\ LET n == Len(cfg.grid)
       IN IF n < 1 \/ n > MAX_GRID_SIZE
          THEN /\ ProbeFail("-EINVAL")
               /\ UNCHANGED <<grid, grid_size>>
          ELSE /\ grid_size' = n
               /\ grid' = ReadArray(cfg.grid, n, grid)
               /\ IF GridTableValid(grid', n)
                  THEN /\ pc' = [pc EXCEPT !["main"] = "p_seg"]
                       /\ UNCHANGED loc
                  ELSE ProbeFail("-EINVAL")
    /\ UNCHANGED <<cfg, all_ok, registered, data, text, segment_mapping, leds,
                   num_leds, led_live, file, disp_lock, bus, dev, dev_addr, failures>>

\* device_property_read_u8_array("segment-mapping", ..., 7) and the validation.
ProbeSeg ==
    /\ pc["main"] = "p_seg"
    /\ IF Len(cfg.segmap) < 7
       THEN /\ ProbeFail("-EOVERFLOW")
            /\ UNCHANGED segment_mapping
       ELSE /\ segment_mapping' = ReadArray(cfg.segmap, 7, segment_mapping)
            /\ IF SegmentTableValid(segment_mapping')
               THEN /\ pc' = [pc EXCEPT !["main"] = "p_file"]
                    /\ UNCHANGED loc
               ELSE ProbeFail("-EINVAL")
    /\ UNCHANGED <<cfg, all_ok, registered, data, text, grid, grid_size, leds,
                   num_leds, led_live, file, disp_lock, bus, dev, dev_addr, failures>>

\* device_create_file(&spi->dev, &dev_attr_display_text)
ProbeFile ==
    /\ pc["main"] = "p_file"
    /\ \E ok \in BOOLEAN :
         IF ok
         THEN /\ file' = TRUE
              /\ pc' = [pc EXCEPT !["main"] = "attached"]
              /\ loc' = [loc EXCEPT !["main"] = [NoLoc EXCEPT !.ret = "0"]]
         ELSE /\ ProbeFail("-ENOMEM")
              /\ UNCHANGED file
    /\ UNCHANGED <<cfg, all_ok, registered, mem, leds, num_leds, led_live,
                   disp_lock, bus, dev, dev_addr, failures>>

\* No LED operation is running (unregistering a class device waits for them).
LedsQuiet == \A t \in Clients : loc[t].op \notin {"led_set", "led_get"}

\* No display_text write is running (removing the attribute waits for them).
WritersQuiet == \A t \in Clients : loc[t].op # "text"

\* devres releases the LED class devices of a probe that failed.
ProbeUnwind ==
    /\ pc["main"] = "p_unwind"
    /\ LedsQuiet
    /\ led_live' = {}
    /\ pc' = [pc EXCEPT !["main"] = "failed"]
    /\ UNCHANGED <<cfg, all_ok, registered, loc, mem, leds, num_leds, file,
                   disp_lock, bus, dev, dev_addr, failures>>

(***************************************************************************)
(* display_text_store (tm1628.c:211-230).                                  *)
(***************************************************************************)
\* New operations start while the device is bound and the system is up.
Running == pc["main"] \notin {"halted", "removed"}

\* Mutant of TooLong: the bound is off by one.
TooLongOffByOne(count) == count > grid_size + 2

\* if (count > s->grid_size + 1) return -E2BIG;
TooLong(count) == count > grid_size + 1

\* A write to the attribute arrives: the length check.
StoreBegin(p) ==
    /\ "text" \in cfg.clients[p]
    /\ pc[p] = "idle"
    /\ file
    /\ Running
    /\ \E b \in cfg.inputs :
         IF TooLong(Len(b))
         THEN /\ loc' = [loc EXCEPT ![p] =
                            [NoLoc EXCEPT !.op = "text", !.buf = b, !.ret = "-E2BIG"]]
              /\ pc' = [pc EXCEPT ![p] = "ret"]
         ELSE /\ loc' = [loc EXCEPT ![p] = [NoLoc EXCEPT !.op = "text", !.buf = b]]
              /\ pc' = [pc EXCEPT ![p] = "st_copy"]
    /\ UNCHANGED <<cfg, all_ok, registered, mem, leds, num_leds, led_live,
                   file, disp_lock, bus, dev, dev_addr, failures>>

\* s->text[k] = c.  text has MAX_GRID_SIZE + 1 elements and segment_mapping
\* follows it in struct tm1628 without padding, so the store to
\* text[MAX_GRID_SIZE + 1] lands on segment_mapping[0].
TextWrite(k, c) ==
    IF k <= MAX_GRID_SIZE
    THEN /\ text' = [text EXCEPT ![k] = c]
         /\ UNCHANGED segment_mapping
    ELSE /\ segment_mapping' = [segment_mapping EXCEPT ![k - MAX_GRID_SIZE - 1] = c]
         /\ UNCHANGED text

\* for (i = 0; i < count && isprint(buf[i]); i++)
CopyMore(b, k) == k < Len(b) /\ isprint(b[k + 1])

\* One round of the copy loop, or, at its end, s->text[i] = '\0'.
StoreCopy(p) ==
    /\ pc[p] = "st_copy"
    /\ LET k == loc[p].i
           b == loc[p].buf
       IN IF CopyMore(b, k)
          THEN /\ TextWrite(k, b[k + 1])
               /\ loc' = [loc EXCEPT ![p].i = k + 1]
               /\ UNCHANGED pc
          ELSE /\ TextWrite(k, 0)
               /\ pc' = [pc EXCEPT ![p] = "sh_strlen"]
               /\ UNCHANGED loc
    /\ UNCHANGED <<cfg, all_ok, registered, data, grid, grid_size, leds,
                   num_leds, led_live, file, disp_lock, bus, dev, dev_addr, failures>>

(***************************************************************************)
(* tm1628_show_text (tm1628.c:110-142).                                    *)
(***************************************************************************)
\* The bytes strlen walks over: text, then segment_mapping and grid, which
\* follow it in the structure, then zeroed padding.
ByteAt(k) ==
    IF k <= MAX_GRID_SIZE THEN text[k]
    ELSE IF k <= MAX_GRID_SIZE + 7 THEN segment_mapping[k - MAX_GRID_SIZE - 1]
    ELSE IF k <= 2 * MAX_GRID_SIZE + 7 THEN grid[k - MAX_GRID_SIZE - 8]
    ELSE 0

\* strlen(s->text)
strlen ==
    CHOOSE n \in 0..(2 * MAX_GRID_SIZE + 8) :
        ByteAt(n) = 0 /\ \A k \in 0..(n - 1) : ByteAt(k) # 0

\* int msg_len = strlen(s->text); read before the mutex is taken.
ShowStrlen(p) ==
    /\ pc[p] = "sh_strlen"
    /\ loc' = [loc EXCEPT ![p].msg_len = strlen]
    /\ pc' = [pc EXCEPT ![p] = "sh_lock"]
    /\ UNCHANGED <<cfg, all_ok, registered, mem, leds, num_leds, led_live,
                   file, disp_lock, bus, dev, dev_addr, failures>>

\* Mutant of Unlocked: the mutex is left with its owner.
LeftLocked(p) == p

\* disp_lock after mutex_unlock(&s->disp_lock) by p.
Unlocked(p) == NoThread

\* Mutant of MutexFree: mutex_lock never waits.
MutexNeverWaits == TRUE

\* mutex_lock(&s->disp_lock) returns once the mutex is free.
MutexFree == disp_lock = NoThread

ShowLock(p) ==
    /\ pc[p] = "sh_lock"
    /\ MutexFree
    /\ disp_lock' = p
    /\ loc' = [loc EXCEPT ![p].i = 0]
    /\ pc' = [pc EXCEPT ![p] = "sh_loop"]
    /\ UNCHANGED <<cfg, all_ok, registered, mem, leds, num_leds, led_live,
                   file, bus, dev, dev_addr, failures>>

\* Mutant of OrSegment: the bit is added instead of or-ed in.
AddSegment(char7, sm) == IF sm >= 1 /\ sm <= 16 THEN (char7 + 2 ^ (sm - 1)) % (2 ^ 16) ELSE char7

\* char7 |= BIT(s->segment_mapping[j] - 1), kept to the 16 bits that reach
\* s->data.  With segment_mapping[j] = 0 the shift count is -1: whatever the
\* shift yields (bit 31 or 63, or nothing), no bit below 16 changes.
OrSegment(char7, sm) == IF sm >= 1 /\ sm <= 16 THEN OrBit(char7, sm - 1) ELSE char7

\* for (j = 0, char7 = 0; j < 7; j++) if (char7_raw & BIT(j)) char7 |= ...
RECURSIVE RemapFrom(_, _, _)
RemapFrom(char7_raw, j, char7) ==
    IF j >= 7 THEN char7
    ELSE RemapFrom(char7_raw, j + 1,
                   IF TestBit(char7_raw, j)
                   THEN OrSegment(char7, segment_mapping[j])
                   ELSE char7)

\* int pos = s->grid[i] - 1;
GridPos(k) == grid[k] - 1

\* Mutant of RenderWord: a position past the text keeps its word.
RenderWordNoBlank(k, msg_len) ==
    IF k < msg_len THEN RemapFrom(map_to_seg7(text[k]), 0, 0) ELSE data[GridPos(k)]

\* The word the render loop stores for logical digit k.
RenderWord(k, msg_len) ==
    IF k < msg_len THEN RemapFrom(map_to_seg7(text[k]), 0, 0) ELSE 0

\* One round of the render loop, or, at its end, the call of write_data.
ShowLoop(p) ==
    /\ pc[p] = "sh_loop"
    /\ LET k == loc[p].i
       IN IF k < grid_size
          THEN /\ data' = [data EXCEPT ![GridPos(k)] = RenderWord(k, loc[p].msg_len)]
               /\ loc' = [loc EXCEPT ![p].i = k + 1,
                                     ![p].rd = IF k < loc[p].msg_len
                                               THEN Append(@, text[k]) ELSE @]
               /\ UNCHANGED pc
          ELSE /\ loc' = [loc EXCEPT ![p].offset = ToU32(0), ![p].len = ToU32(grid_size)]
               /\ pc' = [pc EXCEPT ![p] = "wd_check"]
               /\ UNCHANGED data
    /\ UNCHANGED <<cfg, all_ok, registered, text, segment_mapping, grid,
                   grid_size, leds, num_leds, led_live, file, disp_lock, bus,
                   dev, dev_addr, failures>>

\* display_text_store: if (ret < 0) return ret; return count;
StoreResult(ret) == IF ret = "0" THEN "count" ELSE ret

\* mutex_unlock(&s->disp_lock); return ret; and the caller's return.
ShowUnlock(p) ==
    /\ pc[p] = "wd_ret"
    /\ loc[p].op = "text"
    /\ disp_lock' = Unlocked(p)
    /\ loc' = [loc EXCEPT ![p].ret = StoreResult(@)]
    /\ pc' = [pc EXCEPT ![p] = "ret"]
    /\ UNCHANGED <<cfg, all_ok, registered, mem, leds, num_leds, led_live,
                   file, bus, dev, dev_addr, failures>>

\* The negative values an operation of a client returns.
ErrorCodes == {"-E2BIG", "-EINVAL", "-EIO"}

\* The operation is over; the thread forgets it.
Return(p) ==
    /\ pc[p] = "ret"
    /\ pc' = [pc EXCEPT ![p] = "idle"]
    /\ loc' = [loc EXCEPT ![p] = NoLoc]
    /\ all_ok' = (all_ok /\ loc[p].ret \notin ErrorCodes)
    /\ UNCHANGED <<cfg, registered, mem, leds, num_leds, led_live,
                   file, disp_lock, bus, dev, dev_addr, failures>>

(***************************************************************************)
(* tm1628_led_set_brightness (tm1628.c:144-167).                           *)
(***************************************************************************)
\* Mutant of LedOffset: the grid number is taken for the offset.
LedOffsetOneBased(l) == leds[l].grid % MAX_GRID_SIZE

\* offset = led->grid - 1;
LedOffset(l) == leds[l].grid - 1

\* The LED core calls brightness_set_blocking for a registered LED.
LedSetBegin(p) ==
    /\ "led" \in cfg.clients[p]
    /\ pc[p] = "idle"
    /\ Running
    /\ \E l \in led_live, on \in BOOLEAN :
         loc' = [loc EXCEPT ![p] =
                    [NoLoc EXCEPT !.op = "led_set", !.led = l, !.on = on]]
    /\ pc' = [pc EXCEPT ![p] = "led_lock"]
    /\ UNCHANGED <<cfg, all_ok, registered, mem, leds, num_leds, led_live,
                   file, disp_lock, bus, dev, dev_addr, failures>>

LedSetLock(p) ==
    /\ pc[p] = "led_lock"
    /\ MutexFree
    /\ disp_lock' = p
    /\ pc' = [pc EXCEPT ![p] = "led_mut"]
    /\ UNCHANGED <<cfg, all_ok, registered, loc, mem, leds, num_leds, led_live,
                   file, bus, dev, dev_addr, failures>>

\* Mutant of LedWord: the word is assigned instead of updated.
LedWordAssign(word, seg, on) == IF on THEN BIT(seg - 1) ELSE 0

\* if (brightness == LED_OFF) s->data[offset] &= ~bit; else s->data[offset] |= bit;
LedWord(word, seg, on) == IF on THEN OrBit(word, seg - 1) ELSE AndNotBit(word, seg - 1)

\* The buffer update, then the call of write_data(s->spi, offset, 1).
LedSetMutate(p) ==
    /\ pc[p] = "led_mut"
    /\ data' = [data EXCEPT ![LedOffset(loc[p].led)] =
                   LedWord(@, leds[loc[p].led].seg, loc[p].on)]
    /\ loc' = [loc EXCEPT ![p].offset = ToU32(LedOffset(loc[p].led)),
                          ![p].len = ToU32(1)]
    /\ pc' = [pc EXCEPT ![p] = "wd_check"]
    /\ UNCHANGED <<cfg, all_ok, registered, text, segment_mapping, grid,
                   grid_size, leds, num_leds, led_live, file, disp_lock, bus,
                   dev, dev_addr, failures>>

LedSetUnlock(p) ==
    /\ pc[p] = "wd_ret"
    /\ loc[p].op = "led_set"
    /\ disp_lock' = Unlocked(p)
    /\ pc' = [pc EXCEPT ![p] = "ret"]
    /\ UNCHANGED <<cfg, all_ok, registered, loc, mem, leds, num_leds, led_live,
                   file, bus, dev, dev_addr, failures>>

(***************************************************************************)
(* tm1628_led_get_brightness (tm1628.c:169-185).                           *)
(***************************************************************************)
\* on = s->data[offset] & bit; return on ? LED_ON : LED_OFF;
led_get_brightness(l) ==
    IF TestBit(data[LedOffset(l)], leds[l].seg - 1) THEN "LED_ON" ELSE "LED_OFF"

LedGetBegin(p) ==
    /\ "led" \in cfg.clients[p]
    /\ pc[p] = "idle"
    /\ Running
    /\ \E l \in led_live :
         loc' = [loc EXCEPT ![p] = [NoLoc EXCEPT !.op = "led_get", !.led = l]]
    /\ pc' = [pc EXCEPT ![p] = "get_lock"]
    /\ UNCHANGED <<cfg, all_ok, registered, mem, leds, num_leds, led_live,
                   file, disp_lock, bus, dev, dev_addr, failures>>

LedGetLock(p) ==
    /\ pc[p] = "get_lock"
    /\ MutexFree
    /\ disp_lock' = p
    /\ pc' = [pc EXCEPT ![p] = "get_read"]
    /\ UNCHANGED <<cfg, all_ok, registered, loc, mem, leds, num_leds, led_live,
                   file, bus, dev, dev_addr, failures>>

\* The read and mutex_unlock.
LedGetRead(p) ==
    /\ pc[p] = "get_read"
    /\ loc' = [loc EXCEPT ![p].ret = led_get_brightness(loc[p].led)]
    /\ disp_lock' = Unlocked(p)
    /\ pc' = [pc EXCEPT ![p] = "ret"]
    /\ UNCHANGED <<cfg, all_ok, registered, mem, leds, num_leds, led_live,
                   file, bus, dev, dev_addr, failures>>

(***************************************************************************)
(* tm1628_spi_remove and tm1628_spi_shutdown (tm1628.c:338-348).           *)
(***************************************************************************)
\* device_remove_file: waits for the writes in progress, admits no new one.
RemoveFile ==
    /\ pc["main"] = "attached"
    /\ cfg.unbind
    /\ WritersQuiet
    /\ file' = FALSE
    /\ loc' = [loc EXCEPT !["main"] = [NoLoc EXCEPT !.op = "remove"]]
    /\ pc' = [pc EXCEPT !["main"] = "rm_ctrl"]
    /\ UNCHANGED <<cfg, all_ok, registered, mem, leds, num_leds, led_live,
                   disp_lock, bus, dev, dev_addr, failures>>

\* tm1628_set_display_ctrl(spi, false); return 0;
RemoveCtrl ==
    /\ pc["main"] = "rm_ctrl"
    /\ \E ok \in BOOLEAN : Issue("main", "ctrl", ToU32(0), ToU32(0), ok, "rm_devres", "0")
    /\ UNCHANGED <<cfg, all_ok, registered, mem, leds, num_leds, led_live,
                   file, disp_lock>>

\* After remove, devres unregisters the LED class devices.
RemoveDevres ==
    /\ pc["main"] = "rm_devres"
    /\ LedsQuiet
    /\ led_live' = {}
    /\ pc' = [pc EXCEPT !["main"] = "removed"]
    /\ UNCHANGED <<cfg, all_ok, registered, loc, mem, leds, num_leds, file,
                   disp_lock, bus, dev, dev_addr, failures>>

\* tm1628_spi_shutdown: tm1628_set_display_ctrl(spi, false);
Shutdown ==
    /\ pc["main"] = "attached"
    /\ cfg.unbind
    /\ \E ok \in BOOLEAN :
         LET x == [kind |-> "ctrl", offset |-> ToU32(0), len |-> ToU32(0),
                   ok |-> ok]
         IN  /\ ok \/ (cfg.flaky /\ failures < MaxFailures)
             /\ failures' = IF ok THEN failures ELSE failures + 1
             /\ bus' = [kind |-> "ctrl", by |-> "main"]
             /\ loc' = [loc EXCEPT !["main"] =
                           [NoLoc EXCEPT !.op = "shutdown", !.xf = <<x>>]]
             /\ UNCHANGED <<dev, dev_addr>>
    /\ pc' = [pc EXCEPT !["main"] = "halted"]
    /\ UNCHANGED <<cfg, all_ok, registered, mem, leds, num_leds, led_live,
                   file, disp_lock>>

(***************************************************************************)
(* The driver and its clients.                                             *)
(***************************************************************************)
Next ==
    \/ ProbeStart
    \/ ProbeMode
    \/ ProbeCtrl
    \/ ProbeLed
    \/ ProbeGrid
    \/ ProbeSeg
    \/ ProbeFile
    \/ ProbeUnwind
    \/ RemoveFile
    \/ RemoveCtrl
    \/ RemoveDevres
    \/ Shutdown
    \/ \E p \in Threads : WriteDataCheck(p)
    \/ \E p \in Threads : WriteDataAddr(p)
    \/ \E p \in Threads : WriteDataXfer(p)
    \/ \E p \in Clients : StoreBegin(p)
    \/ \E p \in Clients : StoreCopy(p)
    \/ \E p \in Clients : ShowStrlen(p)
    \/ \E p \in Clients : ShowLock(p)
    \/ \E p \in Clients : ShowLoop(p)
    \/ \E p \in Clients : ShowUnlock(p)
    \/ \E p \in Clients : LedSetBegin(p)
    \/ \E p \in Clients : LedSetLock(p)
    \/ \E p \in Clients : LedSetMutate(p)
    \/ \E p \in Clients : LedSetUnlock(p)
    \/ \E p \in Clients : LedGetBegin(p)
    \/ \E p \in Clients : LedGetLock(p)
    \/ \E p \in Clients : LedGetRead(p)
    \/ \E p \in Clients : Return(p)

Spec == Init /\ [][Next]_vars

(***************************************************************************)
(* Scheduling.  A thread that can take a step is eventually scheduled, and *)
(* a transfer handed to the SPI core completes.  A thread that waits in    *)
(* mutex_lock gets the mutex if it keeps becoming free: the kernel's mutex *)
(* hands the lock over to a waiter that has been passed over.  Nothing     *)
(* obliges a client to start an operation.                                 *)
(***************************************************************************)
\* The steps of an operation of p that wait for nothing.
ClientStep(p) ==
    \/ StoreCopy(p)
    \/ ShowStrlen(p)
    \/ ShowLoop(p)
    \/ ShowUnlock(p)
    \/ LedSetMutate(p)
    \/ LedSetUnlock(p)
    \/ LedGetRead(p)
    \/ WriteDataCheck(p)
    \/ WriteDataAddr(p)
    \/ WriteDataXfer(p)
    \/ Return(p)

\* mutex_lock(&s->disp_lock) in the operation of p.
LockStep(p) == ShowLock(p) \/ LedSetLock(p) \/ LedGetLock(p)

Fairness ==
    \A p \in Clients : WF_vars(ClientStep(p)) /\ SF_vars(LockStep(p))

\* The scenarios in which clients contend for the mutex, the bus fails, the
\* device is unbound, or probe fails.
LiveScenarios ==
    ContendedScenarios \cup UnbindScenarios
        \cup {c \in BadScenarios : c.grid = <<>>}

InitLive == Init /\ cfg \in LiveScenarios

SpecLive == InitLive /\ [][Next]_vars /\ Fairness

(***************************************************************************)
(* tm1628_write_data called on its own, with arbitrary unsigned arguments. *)
(***************************************************************************)
\* Arguments up to MaxArg, and the MaxArg + 1 largest unsigned ints.
MaxArg == 8

WriteDataArgs ==
    {ToU32(n) : n \in 0..MaxArg} \cup {<<2 ^ 16 - 1, 2 ^ 16 - 1 - n>> : n \in 0..MaxArg}

InitWriteData ==
    /\ cfg = Scenario(<<1>>, Identity7, <<>>, {}, Nobody, {}, FALSE, TRUE)
    /\ pc = [t \in Threads |-> IF t = "main" THEN "wd_check" ELSE "idle"]
    /\ \E offset \in WriteDataArgs, len \in WriteDataArgs :
         loc = [t \in Threads |->
                  IF t = "main"
                  THEN [NoLoc EXCEPT !.op = "direct", !.offset = offset, !.len = len]
                  ELSE NoLoc]
    /\ data = [k \in 0..(MAX_GRID_SIZE - 1) |-> 0]
    /\ text = [k \in 0..MAX_GRID_SIZE |-> 0]
    /\ segment_mapping = [k \in 0..6 |-> 0]
    /\ grid = [k \in 0..(MAX_GRID_SIZE - 1) |-> 0]
    /\ grid_size = 0
    /\ leds = <<>>
    /\ num_leds = 0
    /\ led_live = {}
    /\ file = FALSE
    /\ disp_lock = NoThread
    /\ bus = NoXfer
    /\ dev \in PowerOnMemory
    /\ dev_addr = 0
    /\ failures = 0
    /\ all_ok = TRUE
    /\ registered = <<>>

NextWriteData ==
    \/ WriteDataCheck("main")
    \/ WriteDataAddr("main")
    \/ WriteDataXfer("main")

SpecWriteData == InitWriteData /\ [][NextWriteData]_vars

(***************************************************************************)
(* Properties.                                                             *)
(***************************************************************************)
\* The kinds, offsets and lengths of the transfers an operation has issued.
Issued(p) ==
    [k \in 1..Len(loc[p].xf) |->
        <<loc[p].xf[k].kind, loc[p].xf[k].offset, loc[p].xf[k].len>>]

\* The burst write_data(offset, len) puts on the bus.
Burst(offset, len) ==
    <<<<"addr", ToU32(offset), ToU32(0)>>, <<"data", ToU32(offset), ToU32(len)>>>>

\* Thread p runs a text render or an LED set-state.
Mutator(p) == loc[p].op \in {"text", "led_set"}

\* p has made its first buffer mutation and its data transfer is not over.
InWindow(p) ==
    /\ Mutator(p)
    /\ \/ pc[p] = "sh_loop" /\ loc[p].i >= 1
       \/ pc[p] \in {"wd_check", "wd_addr", "wd_xfer"}

\* The next step of p mutates the buffer or leads to its transfers.
InBurst(p) ==
    /\ Mutator(p)
    /\ pc[p] \in {"sh_loop", "led_mut", "wd_check", "wd_addr", "wd_xfer"}

\* C1: while one text render or LED set-state is between its first buffer
\* mutation and the end of its data transfer, no other render or set-state is
\* at a buffer mutation or a bus transfer.
C1_NoInterleaving ==
    \A p \in Clients, q \in Clients :
        (p # q /\ InWindow(p)) => ~InBurst(q)

\* C1 witness: an operation is inside its window while another one waits for
\* the mutex.
C1_Witness ==
    \E p \in Clients, q \in Clients :
        /\ p # q
        /\ InWindow(p)
        /\ pc[p] = "wd_xfer"
        /\ pc[q] \in {"sh_lock", "led_lock"}

\* C2 (as claimed): an address command is followed on the bus by the data
\* transfer of the same operation: as long as a thread has sent its address
\* command and not yet its data, the last transfer on the bus is that address
\* command.
C2_AddressThenData ==
    /\ \A p \in Threads : pc[p] = "wd_xfer" => bus = [kind |-> "addr", by |-> p]
    /\ bus.kind = "addr" => pc[bus.by] = "wd_xfer"

\* The stored text, as display_text_show prints it: the bytes before the
\* first NUL.
StoredText == [k \in 1..strlen |-> ByteAt(k - 1)]

\* No write to display_text is in progress.
NoTextWrite == \A t \in Clients : loc[t].op # "text"

\* C3 (as claimed): after a successful attach, whenever no text write is in
\* progress the stored text is at most grid_size characters long.
C3_TextFits ==
    (file /\ NoTextWrite) => Len(StoredText) <= grid_size

\* Every transfer the operation of p has issued succeeded.
AllTransfersOk(p) == \A k \in 1..Len(loc[p].xf) : loc[p].xf[k].ok

\* C4 (as claimed): a text render or LED set-state returns success only if
\* every transfer it issued succeeded.
C4_FailureSurfaces ==
    \A p \in Clients :
        (Mutator(p) /\ pc[p] = "ret" /\ loc[p].ret \in {"0", "count"})
            => AllTransfersOk(p)

\* offset + len exceeds the grid capacity, as numbers.
Exceeds(offset, len) == offset[1] + len[1] > 0 \/ offset[2] + len[2] > MAX_GRID_SIZE

C6_Step ==
    \A p \in Clients :
        (loc'[p].op = "text" /\ Len(loc'[p].buf) > grid_size' + 1)
            => /\ pc'[p] = "ret"
               /\ loc'[p].ret = "-E2BIG"
               /\ loc'[p].xf = <<>>
               /\ disp_lock' # p
               /\ loc'[p] # loc[p] =>
                      UNCHANGED <<text, segment_mapping, data, bus, disp_lock>>

C6_OverLongRejected == [][C6_Step]_vars

\* C6 witness: an over-long write has been rejected while a text is stored.
C6_Witness ==
    \E p \in Clients :
        /\ loc[p].op = "text"
        /\ Len(loc[p].buf) > grid_size + 1
        /\ loc[p].ret = "-E2BIG"
        /\ text[0] # 0

\* The (grid, segment) coordinates of LED slots l and m differ.
OtherCoordinate(l, m) == leds[l].grid # leds[m].grid \/ leds[l].seg # leds[m].seg

\* C7: the buffer update of an LED set-state makes get-state of that LED
\* return the requested state and leaves get-state of every registered LED at
\* another coordinate as it was.
C7_Step ==
    \A p \in Clients :
        (pc[p] = "led_mut" /\ pc'[p] # "led_mut")
            => /\ led_get_brightness(loc[p].led)'
                    = (IF loc[p].on THEN "LED_ON" ELSE "LED_OFF")
               /\ \A m \in led_live :
                      OtherCoordinate(loc[p].led, m)
                          => led_get_brightness(m)' = led_get_brightness(m)

C7_SetThenGet == [][C7_Step]_vars

\* C7 witness: an LED has just been switched off while another LED on the same
\* word is on.
C7_Witness ==
    \E p \in Clients, m \in led_live :
        /\ loc[p].op = "led_set"
        /\ pc[p] = "wd_check"
        /\ ~loc[p].on
        /\ m # loc[p].led
        /\ leds[m].grid = leds[loc[p].led].grid
        /\ led_get_brightness(m) = "LED_ON"

RECURSIVE SumOfBits(_)
SumOfBits(S) ==
    IF S = {} THEN 0
    ELSE LET b == CHOOSE x \in S : TRUE IN 2 ^ b + SumOfBits(S \ {b})

\* remap: the word with bit segment_table[j] - 1 set for each set logical bit j.
Remap(pattern) ==
    SumOfBits({segment_mapping[j] - 1 : j \in {k \in 0..6 : TestBit(pattern, k)}})

\* A render of p is complete: its transfers are over, the mutex still held.
RenderDone(p) == loc[p].op = "text" /\ pc[p] = "wd_ret"

\* The word a completed render of p owes logical digit k: the remapped pattern
\* of the k-th character it read, blank past the text's length.
Owed(p, k) ==
    IF k < Len(loc[p].rd) THEN Remap(map_to_seg7(loc[p].rd[k + 1])) ELSE 0

LastOnWord(k) == \A j \in (k + 1)..(grid_size - 1) : grid[j] # grid[k]

OnDigitWord(l) == \E k \in 0..(grid_size - 1) : GridPos(k) = LedOffset(l)

\* C9 (as claimed): after a render of the empty string, get-state of every
\* registered LED returns off.
C9_AllOff ==
    \A p \in Clients :
        (RenderDone(p) /\ loc[p].msg_len = 0)
            => \A l \in led_live : led_get_brightness(l) = "LED_OFF"

\* C9 (amended): after a render of the empty string, get-state returns off for
\* every registered LED on a word that the render writes.
C9_DigitWordsOff ==
    \A p \in Clients :
        (RenderDone(p) /\ loc[p].msg_len = 0)
            => \A l \in led_live :
                   OnDigitWord(l) => led_get_brightness(l) = "LED_OFF"

\* C9 witness: the empty string has been rendered; one registered LED lies on
\* a digit word and another one, elsewhere, is on.
C9_Witness ==
    \E p \in Clients, l \in led_live, m \in led_live :
        /\ RenderDone(p)
        /\ loc[p].msg_len = 0
        /\ OnDigitWord(l)
        /\ ~OnDigitWord(m)
        /\ led_get_brightness(m) = "LED_ON"

\* The length of the leading run of printable bytes of b.
PrefixLen(b) ==
    CHOOSE n \in 0..Len(b) :
        /\ \A k \in 1..n : isprint(b[k])
        /\ n = Len(b) \/ ~isprint(b[n + 1])

\* The step by which the write of p stores its terminator leaves the leading
\* run of printable bytes of its input as the stored text.
C10_Step(p) ==
    (pc[p] = "st_copy" /\ pc'[p] = "sh_strlen")
        => StoredText' = SubSeq(loc[p].buf, 1, PrefixLen(loc[p].buf))

\* C10 (as claimed): every accepted write stores the leading run of printable
\* bytes of its input.
C10_StoresPrintablePrefix == [][\A p \in Clients : C10_Step(p)]_vars

\* The same where a single thread writes the attribute.
C10_SingleWriter ==
    [][Cardinality({t \in Clients : "text" \in cfg.clients[t]}) = 1
           => \A p \in Clients : C10_Step(p)]_vars

\* No client is inside an operation.
Idle == \A t \in Clients : pc[t] = "idle"

\* grid_table sends no two logical digits to one word.
GridIsPermutation ==
    \A j \in 0..(grid_size - 1), k \in 0..(grid_size - 1) :
        j # k => grid[j] # grid[k]

\* The word a render of the text txt gives logical digit k.
RenderOf(txt, k) ==
    IF k < Len(txt) THEN Remap(map_to_seg7(txt[k + 1])) ELSE 0

\* C11 (as claimed): when no operation is in progress and no write has
\* returned an error, the text a read of display_text returns is the text on
\* the display: with a permutation grid_table and no LED on a digit word,
\* every digit's buffer word is the render of the stored text at that digit.
C11_ReadIsRendered ==
    (/\ file
     /\ Idle
     /\ all_ok
     /\ GridIsPermutation
     /\ SegmentTableValid(segment_mapping)
     /\ \A l \in led_live : ~OnDigitWord(l))
        => \A k \in 0..(grid_size - 1) : data[GridPos(k)] = RenderOf(StoredText, k)

\* Probe has got past the validation of the grid and segment tables.
TablesValidated ==
    pc["main"] \in {"p_file", "attached", "rm_ctrl", "rm_devres", "removed", "halted"}

\* The kinds of the transfers probe has issued so far.
ProbeTransfers == [k \in 1..Len(loc["main"].xf) |-> loc["main"].xf[k].kind]

\* C12 (as claimed): probe clears the display memory, selects the mode and
\* enables the display in this order before it looks at the firmware
\* description, and no LED and no display_text attribute is registered before
\* the grid and segment tables have been validated.
C12_ValidatedBeforeSurfaces ==
    /\ pc["main"] \in {"p_leds", "p_grid", "p_seg", "p_file"}
           => ProbeTransfers = <<"addr", "data", "mode", "ctrl">>
    /\ (led_live # {} \/ file) => TablesValidated

\* The firmware description has no usable "grid" or "segment-mapping": a
\* grid count outside [1, 7], a grid entry outside [1, count], fewer than
\* seven segment entries or one outside [1, 16].
BadTables ==
    \/ Len(cfg.grid) < 1
    \/ Len(cfg.grid) > MAX_GRID_SIZE
    \/ \E k \in 1..Len(cfg.grid) : cfg.grid[k] < 1 \/ cfg.grid[k] > Len(cfg.grid)
    \/ Len(cfg.segmap) < 7
    \/ \E k \in 1..7 : cfg.segmap[k] < 1 \/ cfg.segmap[k] > MAX_SEGMENT_NUM

\* Probe has returned 0 (and the device may have been unbound since).
Attached == pc["main"] \in {"attached", "rm_ctrl", "rm_devres", "removed", "halted"}

\* With bad tables probe fails and display_text is never created.
C13_BadTablesFatal == BadTables => (~file /\ ~Attached)

\* C13 (as claimed): with bad tables probe fails and display_text is never
\* created, and in every state after a successful probe grid_size is in
\* [1, 7], every grid entry in [1, grid_size] and every segment entry in
\* [1, 16].
C13_TablesInRange ==
    /\ C13_BadTablesFatal
    /\ Attached => /\ grid_size >= 1
                   /\ grid_size <= MAX_GRID_SIZE
                   /\ GridTableValid(grid, grid_size)
                   /\ SegmentTableValid(segment_mapping)

\* A child node whose "reg" names no LED of the controller: grid or segment 0,
\* grid above MAX_GRID_SIZE or segment above MAX_SEGMENT_NUM.
InvalidCoordinate(reg) ==
    /\ Len(reg) >= 2
    /\ \/ reg[1] = 0
       \/ reg[1] > MAX_GRID_SIZE
       \/ reg[2] = 0
       \/ reg[2] > MAX_SEGMENT_NUM

\* C14 (as claimed): a child node with an invalid (grid, segment) coordinate
\* makes probe fail.
C14_InvalidLedFatal ==
    (\E k \in 1..NumChildren : InvalidCoordinate(cfg.children[k])) => ~Attached

\* The coordinate the firmware description gives child node c.
ChildLed(c) == [grid |-> cfg.children[c][1], seg |-> cfg.children[c][2]]

\* C15: while probe runs and as long as the device stays bound, the
\* registered LEDs are exactly the child nodes whose registration succeeded,
\* in their order, in slots 0 .. num_leds - 1: a child whose registration
\* failed has no slot among them; and the loop goes through every child, so
\* every valid child whose registration cannot fail is among them at its end.
C15_FailedLedSkipped ==
    pc["main"] \in {"p_leds", "p_grid", "p_seg", "p_file", "attached"}
        => /\ num_leds = Len(registered)
           /\ led_live = 0..(num_leds - 1)
           /\ \A j \in 1..Len(registered) : leds[j - 1] = ChildLed(registered[j])
           /\ \A j \in 1..Len(registered), k \in 1..Len(registered) :
                  j < k => registered[j] < registered[k]
           /\ pc["main"] # "p_leds"
                  => \A c \in 1..NumChildren :
                         (ValidLedReg(cfg.children[c]) /\ c \notin cfg.regfail)
                             => \E j \in 1..Len(registered) : registered[j] = c

\* C15 witness: probe has succeeded although the registration of one LED
\* failed, and an LED described after that one is registered.
C15_Witness ==
    /\ pc["main"] = "attached"
    /\ \E c \in cfg.regfail :
          /\ ValidLedReg(cfg.children[c])
          /\ \A j \in 1..Len(registered) : registered[j] # c
          /\ \E j \in 1..Len(registered) : registered[j] > c /\ j - 1 \in led_live

\* The step is one of the LED set-state that p runs.
LedSetStep(p) == loc[p].op = "led_set" /\ pc'[p] # pc[p]

\* C16: of an LED set-state at (grid, segment), the buffer update sets bit
\* segment - 1 of word grid - 1 to the requested state and changes no other
\* bit of that word and no other word; no other step of the operation changes
\* the buffer; no step changes the text; and the operation has issued exactly
\* the burst write_data(grid - 1, 1) when it returns.
C16_Step(p) ==
    LedSetStep(p) =>
        LET word == leds[loc[p].led].grid - 1
            bit == leds[loc[p].led].seg - 1
        IN  /\ UNCHANGED <<text, segment_mapping, grid, grid_size>>
            /\ \A k \in 0..(MAX_GRID_SIZE - 1) : k # word => data'[k] = data[k]
            /\ \A n \in 0..(MAX_SEGMENT_NUM - 1) :
                   n # bit => TestBit(data'[word], n) = TestBit(data[word], n)
            /\ pc[p] = "led_mut" => TestBit(data'[word], bit) = loc[p].on
            /\ pc[p] # "led_mut" => data' = data
            /\ pc'[p] = "ret" =>
                   /\ Issued(p) = Burst(word, 1)
                   /\ loc'[p].xf = loc[p].xf

C16_OneBitOneBurst == [][\A p \in Clients : C16_Step(p)]_vars

\* C16 witness: an LED set-state has switched its LED on and sent its burst,
\* while other bits of its word are set and a text is stored.
C16_Witness ==
    \E p \in Clients :
        /\ loc[p].op = "led_set"
        /\ pc[p] = "wd_ret"
        /\ loc[p].on
        /\ Len(loc[p].xf) = 2
        /\ data[LedOffset(loc[p].led)] # BIT(leds[loc[p].led].seg - 1)
        /\ text[0] # 0

\* The data transfer of the render or LED set-state of p has failed.
DataFailed(p) ==
    /\ Mutator(p)
    /\ Len(loc[p].xf) = 2
    /\ ~loc[p].xf[2].ok

\* The buffer holds what the operation of p computed: the requested state of
\* its LED, or the words of the text it rendered.
NewValueKept(p) ==
    IF loc[p].op = "led_set"
    THEN led_get_brightness(loc[p].led) = (IF loc[p].on THEN "LED_ON" ELSE "LED_OFF")
    ELSE \A k \in 0..(grid_size - 1) :
             LastOnWord(k) => data[GridPos(k)] = Owed(p, k)

\* C17: when the data transfer of a render or LED set-state fails, the
\* operation gets -EIO, and none of its later steps changes the buffer or
\* issues a transfer: up to its return the buffer holds the value it computed
\* and the error is what it returns.
C17_Step(p) ==
    (DataFailed(p)' /\ pc'[p] # pc[p] /\ pc'[p] \in {"wd_ret", "ret"})
        => /\ data' = data
           /\ NewValueKept(p)'
           /\ loc'[p].ret = "-EIO"
           /\ pc[p] # "wd_xfer" => (bus' = bus /\ loc'[p].xf = loc[p].xf)

C17_NoRollbackNoRetry == [][\A p \in Clients : C17_Step(p)]_vars

\* C17 witness: an LED set-state is about to return -EIO; get-state of its LED
\* would report on, and the controller's memory has the LED off.
C17_Witness ==
    \E p \in Clients :
        /\ DataFailed(p)
        /\ pc[p] = "ret"
        /\ loc[p].op = "led_set"
        /\ loc[p].on
        /\ led_get_brightness(loc[p].led) = "LED_ON"
        /\ ~TestBit(dev[LedOffset(loc[p].led)], leds[loc[p].led].seg - 1)

\* No client holds an error it is about to return.
NoErrorPending == \A t \in Clients : loc[t].ret \notin ErrorCodes

\* C18 (as claimed): after a successful probe, whenever the mutex is free and
\* no render and no LED set-state has returned an error, the controller's
\* memory equals the buffer, word for word.
C18_DeviceMirrorsBuffer ==
    (/\ pc["main"] = "attached"
     /\ disp_lock = NoThread
     /\ all_ok
     /\ NoErrorPending)
        => \A k \in 0..(MAX_GRID_SIZE - 1) : dev[k] = data[k]

\* The same as long as no address command has failed.
C18_MirrorsWhenAddressed ==
    (/\ pc["main"] = "attached"
     /\ disp_lock = NoThread
     /\ all_ok
     /\ NoErrorPending
     /\ failures = 0)
        => \A k \in 0..(MAX_GRID_SIZE - 1) : dev[k] = data[k]

\* C20: no render and no LED set-state gets -EINVAL from write_data: every
\* registered LED has its grid in [1, 7] and its segment in [1, 16], and after
\* a successful probe grid_size is in [1, 7], so that the offset and length of
\* every burst pass the bounds check.
C20_NeverOutOfRange ==
    /\ \A p \in Clients : Mutator(p) => loc[p].ret # "-EINVAL"
    /\ \A p \in Clients :
           (Mutator(p) /\ pc[p] = "wd_check")
               => ~OutOfRange(loc[p].offset, loc[p].len)
    /\ \A l \in led_live :
           /\ leds[l].grid >= 1
           /\ leds[l].grid <= MAX_GRID_SIZE
           /\ leds[l].seg >= 1
           /\ leds[l].seg <= MAX_SEGMENT_NUM
    /\ Attached => (grid_size >= 1 /\ grid_size <= MAX_GRID_SIZE)

\* C20 witness: after a successful probe a burst that ends at the last word
\* of the buffer has passed the bounds check.
C20_Witness ==
    \E p \in Clients :
        /\ pc["main"] = "attached"
        /\ Mutator(p)
        /\ pc[p] = "wd_addr"
        /\ loc[p].offset[2] + loc[p].len[2] = MAX_GRID_SIZE

\* p is inside the section the mutex protects: at its buffer access or at one
\* of its transfers.
InSection(p) ==
    /\ loc[p].op \in {"text", "led_set", "led_get"}
    /\ pc[p] \in {"sh_loop", "led_mut", "get_read", "wd_check", "wd_addr",
                  "wd_xfer", "wd_ret"}

\* p waits in mutex_lock.
Waiting(p) == pc[p] \in {"sh_lock", "led_lock", "get_lock"}

\* C19: a render, LED set-state or LED get-state holds the mutex from its
\* buffer access to the end of its transfers; whoever holds the mutex
\* releases it, whatever the transfers return; and whoever waits for the
\* mutex gets it and completes its operation.
C19_LockReleased ==
    /\ [](\A p \in Clients : InSection(p) <=> disp_lock = p)
    /\ \A p \in Clients : (disp_lock = p) ~> (disp_lock # p)
    /\ \A p \in Clients : Waiting(p) ~> (pc[p] = "ret")

\* C19 witness: a thread waits for the mutex while its holder has had a
\* transfer fail.
C19_Witness ==
    \E p \in Clients, q \in Clients :
        /\ p # q
        /\ Waiting(p)
        /\ disp_lock = q
        /\ pc[q] = "wd_ret"
        /\ loc[q].ret = "-EIO"

====
